---- MODULE Spec2Model ----
(***************************************************************************)
(* Checkpoint retention policies of parakeet/training/checkpoint.py:       *)
(* KBest (keep the K lowest-metric checkpoints) and KLatest (keep the K    *)
(* most recent checkpoints).  One behaviour follows one retainer object    *)
(* from its construction through a sequence of add_checkpoint calls; the   *)
(* caller-supplied save_fn / del_fn act on a storage (the set of           *)
(* identifiers whose artifact exists) and may raise.                       *)
(***************************************************************************)
EXTENDS Integers, Sequences, FiniteSets

\* ---------------------------------------------------------------- bounds
MaxOffers == 4      \* add_checkpoint calls per behaviour
NumPaths == 4       \* distinct identifiers the caller may offer
MaxScore == 3       \* metrics are 1..MaxScore (only their order matters)
MaxCap == 2         \* largest bounded max_size
MaxFailures == 1    \* callback calls that raise, per behaviour

\* max_size == -1 sets _save_all
SAVE_ALL == -1

Paths == 1..NumPaths
Scores == 1..MaxScore
\* -2 stands for a negative max_size that is not the sentinel
MaxSizes == {-2, SAVE_ALL} \cup (0..MaxCap)
Classes == {"KBest", "KLatest"}
\* which callback raises during a call, if it is invoked
FailModes == {"none", "del", "save"}

VARIABLES
    cls,             \* class of the constructed object
    max_size,        \* self.max_size
    best_records,    \* KBest.best_records: dict in insertion order, <<[path, metric], ...>>
    latest_records,  \* KLatest.latest_records: list of paths, oldest first
    stored,          \* identifiers whose artifact exists in storage
    offers,          \* history: every add_checkpoint call so far, [path, metric]
    failures,        \* history: number of save_fn / del_fn calls that have raised
    log,             \* history: every save_fn / del_fn call so far, in order
    last             \* the last add_checkpoint call: state before it, callbacks, outcome

vars == <<cls, max_size, best_records, latest_records, stored, offers, failures, log, last>>

\* ---------------------------------------------------------------- helpers
RemoveAt(s, i) == [j \in 1..(Len(s) - 1) |-> IF j < i THEN s[j] ELSE s[j + 1]]

Range(s) == {s[i] : i \in 1..Len(s)}

\* the keys of the dict
Keys(recs) == {recs[i].path : i \in 1..Len(recs)}

\* dict[path] = metric: an existing key keeps its position, a new key goes last
DictSet(recs, path, metric) ==
    IF path \in Keys(recs)
    THEN [i \in 1..Len(recs) |->
            IF recs[i].path = path THEN [path |-> path, metric |-> metric] ELSE recs[i]]
    ELSE Append(recs, [path |-> path, metric |-> metric])

\* min in place of max: the first key of minimal metric
WorstIndex_min(recs) ==
    CHOOSE i \in 1..Len(recs) :
        /\ \A j \in 1..Len(recs) : recs[j].metric >= recs[i].metric
        /\ \A j \in 1..(i - 1) : recs[j].metric > recs[i].metric

\* max(best_records, key=best_records.get): the first key of maximal metric
WorstIndex(recs) ==
    CHOOSE i \in 1..Len(recs) :
        /\ \A j \in 1..Len(recs) : recs[j].metric <= recs[i].metric
        /\ \A j \in 1..(i - 1) : recs[j].metric < recs[i].metric

\* ---------------------------------------------------------------- callbacks
\* A handler run is a record s: the object's fields, the storage, the
\* callbacks invoked so far (calls), the storage after each of them (snaps)
\* and the outcome (result = "running" until the call returns or raises).
StartRun(best, latest, sto) ==
    [best |-> best, latest |-> latest, stored |-> sto,
     calls |-> <<>>, snaps |-> <<>>, result |-> "running"]

\* self.del_fn(path): removes the artifact, or raises and removes nothing
CallDel(s, path, ok) ==
    LET sto == IF ok THEN s.stored \ {path} ELSE s.stored
    IN  [s EXCEPT !.stored = sto,
                  !.calls = Append(@, [fn |-> "del_fn", arg |-> path, ok |-> ok]),
                  !.snaps = Append(@, sto),
                  !.result = IF ok THEN @ ELSE "DelError"]

\* self.save_fn(path): writes the artifact, or raises and writes nothing
CallSave(s, path, ok) ==
    LET sto == IF ok THEN s.stored \cup {path} ELSE s.stored
    IN  [s EXCEPT !.stored = sto,
                  !.calls = Append(@, [fn |-> "save_fn", arg |-> path, ok |-> ok]),
                  !.snaps = Append(@, sto),
                  !.result = IF ok THEN @ ELSE "SaveError"]

\* ---------------------------------------------------------------- KLatest
\* a capacity test that is off by one
KLatest_full_late(latest, max) ==
    (max # SAVE_ALL) /\ (Len(latest) = max + 1)

KLatest_full(latest, max) ==
    (max # SAVE_ALL) /\ (Len(latest) = max)

\* the oldest record is dropped from the list and del_fn is never called
KLatest_evict_nodel(s, max, delOk) ==
    IF KLatest_full(s.latest, max)
    THEN IF Len(s.latest) = 0
         THEN [s EXCEPT !.result = "IndexError"]
         ELSE [s EXCEPT !.latest = Tail(@)]
    ELSE s

\* pop() in place of pop(0): the newest record is removed
KLatest_evict_newest(s, max, delOk) ==
    IF KLatest_full(s.latest, max)
    THEN IF Len(s.latest) = 0
         THEN [s EXCEPT !.result = "IndexError"]
         ELSE CallDel([s EXCEPT !.latest = SubSeq(@, 1, Len(@) - 1)],
                      s.latest[Len(s.latest)], delOk)
    ELSE s

\* "remove the earist": latest_records.pop(0), then del_fn
KLatest_evict(s, max, delOk) ==
    IF KLatest_full(s.latest, max)
    THEN IF Len(s.latest) = 0
         THEN [s EXCEPT !.result = "IndexError"]      \* pop from empty list
         ELSE CallDel([s EXCEPT !.latest = Tail(@)], Head(s.latest), delOk)
    ELSE s

\* the identifier is appended before save_fn is called
KLatest_insert_early(s, path, saveOk) ==
    LET s1 == CallSave([s EXCEPT !.latest = Append(@, path)], path, saveOk)
    IN  IF s1.result # "running" THEN s1 ELSE [s1 EXCEPT !.result = "ok"]

\* "add the new one": save_fn, then latest_records.append
KLatest_insert(s, path, saveOk) ==
    LET s1 == CallSave(s, path, saveOk)
    IN  IF s1.result # "running" THEN s1
        ELSE [s1 EXCEPT !.latest = Append(@, path), !.result = "ok"]

KLatest_save_checkpoint_and_update(s, max, path, delOk, saveOk) ==
    LET s1 == KLatest_evict(s, max, delOk)
    IN  IF s1.result # "running" THEN s1 ELSE KLatest_insert(s1, path, saveOk)

KLatest_add_checkpoint(s, max, path, delOk, saveOk) ==
    KLatest_save_checkpoint_and_update(s, max, path, delOk, saveOk)

\* ---------------------------------------------------------------- KBest
KBest_full(best, max) ==
    (max # SAVE_ALL) /\ (Len(best) = max)

\* <= in place of <: a metric equal to the worst one is accepted
KBest_should_save_ties(best, max, metric) ==
    IF ~KBest_full(best, max) THEN "True"
    ELSE IF Len(best) = 0 THEN "ValueError"
    ELSE IF metric <= best[WorstIndex(best)].metric THEN "True" ELSE "False"

\* "True" / "False", or "ValueError" when max() is taken of an empty dict
KBest_should_save(best, max, metric) ==
    IF ~KBest_full(best, max) THEN "True"
    ELSE IF Len(best) = 0 THEN "ValueError"
    ELSE IF metric < best[WorstIndex(best)].metric THEN "True" ELSE "False"

\* del_fn is called for every offer, full or not
KBest_evict_always(s, max, delOk) ==
    IF Len(s.best) = 0
    THEN IF KBest_full(s.best, max) THEN [s EXCEPT !.result = "ValueError"] ELSE s
    ELSE LET w == WorstIndex(s.best)
         IN  CallDel([s EXCEPT !.best = RemoveAt(@, w)], s.best[w].path, delOk)

\* "remove the worst": best_records.pop(worst), then del_fn
KBest_evict(s, max, delOk) ==
    IF KBest_full(s.best, max)
    THEN IF Len(s.best) = 0
         THEN [s EXCEPT !.result = "ValueError"]
         ELSE LET w == WorstIndex(s.best)
              IN  CallDel([s EXCEPT !.best = RemoveAt(@, w)], s.best[w].path, delOk)
    ELSE s

\* "add the new one": save_fn, then best_records[path] = metric
KBest_insert(s, metric, path, saveOk) ==
    LET s1 == CallSave(s, path, saveOk)
    IN  IF s1.result # "running" THEN s1
        ELSE [s1 EXCEPT !.best = DictSet(@, path, metric), !.result = "ok"]

KBest_save_checkpoint_and_update(s, max, metric, path, delOk, saveOk) ==
    LET s1 == KBest_evict(s, max, delOk)
    IN  IF s1.result # "running" THEN s1 ELSE KBest_insert(s1, metric, path, saveOk)

KBest_add_checkpoint(s, max, metric, path, delOk, saveOk) ==
    LET d == KBest_should_save(s.best, max, metric)
    IN  IF d = "True" THEN KBest_save_checkpoint_and_update(s, max, metric, path, delOk, saveOk)
        ELSE IF d = "False" THEN [s EXCEPT !.result = "rejected"]
        ELSE [s EXCEPT !.result = d]

\* ---------------------------------------------------------------- behaviours
NoCall ==
    [metric |-> 0, path |-> 0, before |-> [calls |-> <<>>, result |-> "none"],
     pre_best |-> <<>>, pre_latest |-> <<>>,
     pre_stored |-> {}, calls |-> <<>>, snaps |-> <<>>, result |-> "none"]

\* KBest.__init__ / KLatest.__init__
Init ==
    /\ cls \in Classes
    /\ max_size \in MaxSizes
    /\ best_records = <<>>
    /\ latest_records = <<>>
    /\ stored = {}
    /\ offers = <<>>
    /\ failures = 0
    /\ log = <<>>
    /\ last = NoCall

\* Identifiers are opaque to both classes (used only as dict keys, list
\* elements and callback arguments), so the caller's choices are taken up to
\* renaming: an identifier offered before, or the least one not yet offered.
Offerable ==
    {p \in Paths : p <= Cardinality({offers[i].path : i \in 1..Len(offers)}) + 1}

\* the callbacks may raise while fewer than MaxFailures calls have raised
MayFail == IF failures < MaxFailures THEN FailModes ELSE {"none"}

\* what one add_checkpoint call leaves behind
Commit(r, metric, path) ==
    /\ best_records' = r.best
    /\ latest_records' = r.latest
    /\ stored' = r.stored
    /\ offers' = Append(offers, [path |-> path, metric |-> metric])
    /\ failures' = failures + (IF r.result \in {"DelError", "SaveError"} THEN 1 ELSE 0)
    /\ log' = log \o r.calls
    /\ last' = [metric |-> metric, path |-> path,
                before |-> [calls |-> last.calls, result |-> last.result],
                pre_best |-> best_records, pre_latest |-> latest_records,
                pre_stored |-> stored,
                calls |-> r.calls, snaps |-> r.snaps, result |-> r.result]
    /\ UNCHANGED <<cls, max_size>>

KBestAddCheckpoint ==
    /\ cls = "KBest"
    /\ Len(offers) < MaxOffers
    /\ \E metric \in Scores, path \in Offerable, f \in MayFail :
          Commit(KBest_add_checkpoint(StartRun(best_records, latest_records, stored),
                                      max_size, metric, path, f # "del", f # "save"),
                 metric, path)

KLatestAddCheckpoint ==
    /\ cls = "KLatest"
    /\ Len(offers) < MaxOffers
    /\ \E path \in Offerable, f \in MayFail :
          Commit(KLatest_add_checkpoint(StartRun(best_records, latest_records, stored),
                                        max_size, path, f # "del", f # "save"),
                 0, path)

Next == KBestAddCheckpoint \/ KLatestAddCheckpoint

Spec == Init /\ [][Next]_vars

\* ---------------------------------------------------------------- claims
Called == last.result # "none"

NoFailure == failures = 0

DistinctOffers ==
    \A i, j \in 1..Len(offers) : i # j => offers[i].path # offers[j].path

Min(a, b) == IF a < b THEN a ELSE b

DelCalls(calls) == {i \in 1..Len(calls) : calls[i].fn = "del_fn"}
SaveCalls(calls) == {i \in 1..Len(calls) : calls[i].fn = "save_fn"}

\* C1: with a bounded max_size K >= 0, after every add_checkpoint call,
\* returned or raised, the number of retained records is at most K.
C1_Capacity ==
    max_size >= 0 =>
        /\ Len(best_records) <= max_size
        /\ Len(latest_records) <= max_size

\* a full retainer has taken a further offer after some callback has raised
C1_Witness ==
    /\ max_size = MaxCap
    /\ failures > 0
    /\ last.result = "ok"
    /\ DelCalls(last.calls) # {}
    /\ (IF cls = "KBest" THEN Len(best_records) ELSE Len(latest_records)) = max_size

\* C2: KBest, K >= 1 or unbounded, no callback failure, distinct paths: the
\* multiset of retained scores is the min(n, K) lowest of the n offered.
CountOf(seq, v) == Cardinality({i \in 1..Len(seq) : seq[i].metric = v})
CountBelow(seq, v) == Cardinality({i \in 1..Len(seq) : seq[i].metric < v})

\* how many copies of v are among the k lowest metrics of seq
LowestTake(seq, k, v) ==
    LET room == k - CountBelow(seq, v)
    IN  IF room <= 0 THEN 0 ELSE Min(room, CountOf(seq, v))

\* C2: the retained metrics are the k = min(n, K) lowest offered metrics.
C2_BestK ==
    (cls = "KBest" /\ (max_size >= 1 \/ max_size = SAVE_ALL) /\ NoFailure /\ DistinctOffers) =>
        LET k == IF max_size = SAVE_ALL THEN Len(offers) ELSE Min(Len(offers), max_size)
        IN  /\ Len(best_records) = k
            /\ \A v \in Scores : CountOf(best_records, v) = LowestTake(offers, k, v)

\* the spec's scenario 2: K = 2, offers (3, a), (2, b), (1, c) leave {b: 2, c: 1}
C2_Witness ==
    /\ cls = "KBest" /\ max_size = 2 /\ NoFailure /\ DistinctOffers
    /\ Len(offers) = 3
    /\ offers[1].metric = 3 /\ offers[2].metric = 2 /\ offers[3].metric = 1
    /\ best_records = <<offers[2], offers[3]>>
    /\ last.calls = <<[fn |-> "del_fn", arg |-> offers[1].path, ok |-> TRUE],
                      [fn |-> "save_fn", arg |-> offers[3].path, ok |-> TRUE]>>

\* C3: KLatest, K >= 1 or unbounded, no callback failure: latest_records is
\* the last min(n, K) offered identifiers in offer order; unbounded mode keeps
\* every identifier and never calls del_fn.
OfferedPaths == [i \in 1..Len(offers) |-> offers[i].path]

LastN(seq, n) == SubSeq(seq, Len(seq) - n + 1, Len(seq))

\* C3: latest_records is the suffix of the offers of length min(n, K).
C3_LatestK ==
    (cls = "KLatest" /\ (max_size >= 1 \/ max_size = SAVE_ALL) /\ NoFailure) =>
        IF max_size = SAVE_ALL
        THEN latest_records = OfferedPaths /\ DelCalls(log) = {}
        ELSE latest_records = LastN(OfferedPaths, Min(Len(offers), max_size))

\* more offers than K have been made and the oldest were evicted
C3_Witness ==
    /\ cls = "KLatest" /\ max_size = 2 /\ NoFailure
    /\ Len(offers) = 4
    /\ Cardinality(DelCalls(log)) = 2
    /\ latest_records = <<offers[3].path, offers[4].path>>
    /\ offers[2].path # offers[3].path

\* C4: K >= 1, no callback failure, distinct identifiers: the identifiers
\* passed to save_fn and not since passed to del_fn are exactly the retained
\* ones (and exactly the stored artifacts), so once K offers have been
\* accepted exactly K artifacts are persisted.
Retained == IF cls = "KBest" THEN Keys(best_records) ELSE Range(latest_records)

Persisted ==
    {p \in Paths : \E i \in SaveCalls(log) :
        /\ log[i].arg = p
        /\ \A j \in DelCalls(log) : j > i => log[j].arg # p}

\* C4: saved and not since deleted = retained = stored.
C4_PersistedSet ==
    (max_size >= 1 /\ NoFailure /\ DistinctOffers) =>
        /\ Persisted = Retained
        /\ stored = Retained
        /\ Cardinality(SaveCalls(log)) >= max_size => Cardinality(Persisted) = max_size

\* more than K distinct identifiers were accepted and K artifacts remain
C4_Witness ==
    /\ max_size = 2 /\ NoFailure /\ DistinctOffers
    /\ Cardinality(SaveCalls(log)) = 3
    /\ Cardinality(DelCalls(log)) = 1
    /\ Cardinality(stored) = 2

\* C5: no callback failure: an accepted add_checkpoint calls save_fn exactly
\* once, with the offered identifier, and calls del_fn exactly once, with the
\* worst-scoring (KBest) or oldest (KLatest) identifier, iff the retainer was
\* full when the offer arrived; otherwise it does not call del_fn.
\* An offer is accepted when it is neither rejected by should_save nor
\* aborted by the retainer before any callback.
Accepted == last.result \notin {"none", "rejected", "ValueError", "IndexError"}

WasFull ==
    /\ max_size # SAVE_ALL
    /\ (IF cls = "KBest" THEN Len(last.pre_best) ELSE Len(last.pre_latest)) = max_size

MaxMetric(recs) ==
    CHOOSE m \in {recs[i].metric : i \in 1..Len(recs)} :
        \A i \in 1..Len(recs) : recs[i].metric <= m

IsEvictee(p) ==
    IF cls = "KBest"
    THEN \E i \in 1..Len(last.pre_best) :
            /\ last.pre_best[i].path = p
            /\ last.pre_best[i].metric = MaxMetric(last.pre_best)
    ELSE p = last.pre_latest[1]

\* C5: one save_fn call per accepted offer, one del_fn call iff it was full.
C5_CallbackCounts ==
    (NoFailure /\ Accepted) =>
        /\ Cardinality(SaveCalls(last.calls)) = 1
        /\ \A i \in SaveCalls(last.calls) : last.calls[i].arg = last.path
        /\ IF WasFull
           THEN /\ Cardinality(DelCalls(last.calls)) = 1
                /\ \A i \in DelCalls(last.calls) : IsEvictee(last.calls[i].arg)
           ELSE DelCalls(last.calls) = {}

\* an accepted offer to a full KBest that does not hold the worst score last
C5_Witness ==
    /\ cls = "KBest" /\ max_size = 2 /\ NoFailure /\ Accepted /\ WasFull
    /\ last.pre_best[1].metric > last.pre_best[2].metric
    /\ Len(last.calls) = 2

\* C6: a full KBest with max_size >= 1 offered a metric not strictly lower
\* than the worst retained one (equal included): no callback is invoked,
\* best_records is unchanged and full() answers as before.
C6_RejectedNoOp ==
    (/\ Called /\ cls = "KBest" /\ max_size >= 1
     /\ Len(last.pre_best) = max_size
     /\ last.metric >= MaxMetric(last.pre_best)) =>
        /\ last.result = "rejected"
        /\ last.calls = <<>>
        /\ best_records = last.pre_best
        /\ stored = last.pre_stored
        /\ KBest_full(best_records, max_size) = KBest_full(last.pre_best, max_size)

\* an offer whose metric equals the worst retained one was rejected
C6_Witness ==
    /\ cls = "KBest" /\ max_size = 2
    /\ Len(last.pre_best) = 2
    /\ last.metric = MaxMetric(last.pre_best)
    /\ last.result = "rejected"
    /\ best_records = last.pre_best

\* C7: in every add_checkpoint call that evicts a record, del_fn for the
\* evicted identifier is called strictly before save_fn for the new one, so
\* that, for pairwise distinct identifiers, the number of stored artifacts
\* never exceeds max_size, not even between the two callbacks.
C7_Ordering ==
    \A i \in DelCalls(last.calls), j \in SaveCalls(last.calls) : i < j

C7_Footprint ==
    (max_size >= 0 /\ DistinctOffers /\ DelCalls(last.calls) # {}) =>
        \A i \in 1..Len(last.snaps) : Cardinality(last.snaps[i]) <= max_size

\* C7: del_fn precedes save_fn and the stored artifacts never exceed max_size.
C7_OrderingAndFootprint == C7_Ordering /\ C7_Footprint

\* C8: if del_fn raises during the eviction step, the identifier chosen for
\* eviction is still tracked (the retained state equals the state before the
\* call), save_fn has not been invoked and the error reaches the caller.
DelFailed(calls) == \E i \in DelCalls(calls) : ~calls[i].ok

\* C8: a raising del_fn leaves the tracked records as they were before the call.
C8_DeleteFailureKeepsState ==
    DelFailed(last.calls) =>
        /\ last.result = "DelError"
        /\ SaveCalls(last.calls) = {}
        /\ best_records = last.pre_best
        /\ latest_records = last.pre_latest
        /\ \A i \in DelCalls(last.calls) : last.calls[i].arg \in Retained

\* C9: if save_fn raises after an eviction whose del_fn succeeded, the error
\* reaches the caller unchanged, the evicted record is gone, the new
\* identifier is not inserted, max_size - 1 records remain, and the next
\* add_checkpoint whose callbacks succeed is an ordinary offer on that state.
SaveFailedAfterEviction(calls) ==
    /\ Len(calls) = 2
    /\ calls[1].fn = "del_fn" /\ calls[1].ok
    /\ calls[2].fn = "save_fn" /\ ~calls[2].ok

Without(recs, p) == SelectSeq(recs, LAMBDA r : r.path # p)

Unique(seq) == \A i, j \in 1..Len(seq) : i # j => seq[i] # seq[j]

PreRetained == IF cls = "KBest" THEN Keys(last.pre_best) ELSE Range(last.pre_latest)

C9_AfterFailedSave ==
    SaveFailedAfterEviction(last.calls) =>
        /\ last.result = "SaveError"
        /\ last.calls[2].arg = last.path
        /\ IsEvictee(last.calls[1].arg)
        /\ IF cls = "KBest"
           THEN /\ best_records = Without(last.pre_best, last.calls[1].arg)
                /\ Len(best_records) = max_size - 1
           ELSE /\ latest_records = Tail(last.pre_latest)
                /\ Len(latest_records) = max_size - 1
        /\ Unique(last.pre_latest) => last.calls[1].arg \notin Retained
        /\ last.path \notin PreRetained => last.path \notin Retained

C9_UsableAfterwards ==
    (/\ SaveFailedAfterEviction(last.before.calls)
     /\ last.result \notin {"DelError", "SaveError"}) =>
        /\ last.result = "ok"
        /\ last.calls = <<[fn |-> "save_fn", arg |-> last.path, ok |-> TRUE]>>
        /\ stored = last.pre_stored \cup {last.path}
        /\ IF cls = "KBest"
           THEN /\ Keys(best_records) = Keys(last.pre_best) \cup {last.path}
                /\ \A i \in 1..Len(best_records) :
                      IF best_records[i].path = last.path
                      THEN best_records[i].metric = last.metric
                      ELSE best_records[i] \in Range(last.pre_best)
           ELSE latest_records = Append(last.pre_latest, last.path)

C10_ZeroNeverAccepts ==
    (cls = "KBest" /\ max_size = 0 /\ Called) =>
        /\ KBest_should_save(last.pre_best, max_size, last.metric) = "False"
        /\ last.result = "rejected"
        /\ last.calls = <<>>
        /\ best_records = <<>>

\* C11: a retainer configured with a negative max_size other than the
\* sentinel -1 is a configuration error: no add_checkpoint on it is accepted,
\* save_fn is never called and no identifier is ever retained.
C11_InvalidCapacityRejected ==
    (max_size < 0 /\ max_size # SAVE_ALL) =>
        /\ last.result # "ok"
        /\ SaveCalls(log) = {}
        /\ best_records = <<>>
        /\ latest_records = <<>>

\* C12: a KLatest with any permitted max_size (an integer >= 0, or the
\* sentinel -1) whose callbacks do not raise completes every add_checkpoint
\* without raising and calls save_fn exactly once, with the offered
\* identifier: the retainer itself neither rejects nor aborts an offer.
C12_LatestAcceptsEveryOffer ==
    (/\ cls = "KLatest" /\ (max_size >= 0 \/ max_size = SAVE_ALL)
     /\ NoFailure /\ Called) =>
        /\ last.result = "ok"
        /\ Cardinality(SaveCalls(last.calls)) = 1
        /\ \A i \in SaveCalls(last.calls) : last.calls[i].arg = last.path

\* C13: in every reachable state, also after the caller offers an identifier
\* that is currently retained, no identifier is tracked twice (keys of
\* best_records, elements of latest_records), so an identifier evicted and
\* passed to del_fn is not still tracked after the call.
C13_KeysUnique ==
    \A i, j \in 1..Len(best_records) :
        i # j => best_records[i].path # best_records[j].path

C13_ListUnique == Unique(latest_records)

C13_EvictedNotTracked ==
    \A i \in DelCalls(last.calls) :
        last.calls[i].arg # last.path => last.calls[i].arg \notin Retained

\* C13: the three parts together, for both classes.
C13_UniqueIdentifiers == C13_KeysUnique /\ C13_ListUnique /\ C13_EvictedNotTracked

====
